---- MODULE Spec2Model ----
(***************************************************************************)
(* Model of the bookie storage node: the write-durability journal of       *)
(* Storage (src/src/Storage.cpp) and the V2 wire codec                     *)
(* (src/src/BookieCodecV2.cpp).                                            *)
(***************************************************************************)
EXTENDS Integers, Sequences, FiniteSets, TLC

(* ---------------------------- bounds ----------------------------------- *)
\* journalQueue_(10000) scaled down: capacity of the bounded MPMC queue
QueueCap == 1
\* total number of put() invocations in one execution
MaxPuts == 3
\* number of concurrent caller threads
NumCallers == 2

Callers == 1..NumCallers
Ids == 1..MaxPuts
\* the null promise written by the destructor
Sentinel == 0

(* ---------------------------- state ------------------------------------ *)
VARIABLES
    fsyncWal_,       \* conf.fsyncWal()
    journalQueue_,   \* MPMCQueue<PromisePtr>: sequence of ids, Sentinel = nullptr
    entriesToSync,   \* runJournal's local batch
    jpc,             \* position of the journal thread
    ri,              \* index of the resolve loop over entriesToSync
    cpc,             \* position of each caller inside put()
    cid,             \* the put invocation (= its future) each caller is in
    cres,            \* Status returned by db_->Put for each caller
    nextId,          \* next put invocation number
    handles,         \* per invocation: the future's state and its history
    syncStarted,     \* number of SyncWAL calls started
    syncReturned,    \* number of SyncWAL calls returned
    lastSyncOk,      \* status returned by the last SyncWAL
    dpc              \* position of the destructor

storageVars == <<fsyncWal_, journalQueue_, entriesToSync, jpc, ri, cpc, cid, cres,
                 nextId, handles, syncStarted, syncReturned, lastSyncOk, dpc>>

\* PacketHeader round trip
VARIABLES
    hdr,             \* the PacketHeader that is packed
    hword,           \* the int produced by toInt()
    hdr2,            \* the PacketHeader produced by fromInt()
    hpc              \* "start", "packed", "unpacked"

headerVars == <<hdr, hword, hdr2, hpc>>

\* client encoder -> frame decoder -> server decoder
VARIABLES
    creq,            \* the Request handed to BookieClientCodecV2::write
    wire,            \* the buffer the encoder passed to fireWrite
    inbuf,           \* the buffer handed to BookieServerCodecV2::read
    fired,           \* what the decoder fired to the next stage, in order
    kpc,             \* "start", "written", "framed", "decoded" on the request
                     \* path; "rstart", "rwritten", "rframed", "rdecoded" on
                     \* the response path
    cresp            \* the Response handed to BookieServerCodecV2::write

codecVars == <<creq, wire, inbuf, fired, kpc, cresp>>

vars == <<storageVars, headerVars, codecVars>>

NoHandle == [state |-> "none", by |-> "none", fulfils |-> 0, enqueued |-> FALSE,
             engineCalls |-> 0, syncAtPut |-> 0, syncOk |-> TRUE]

\* variant: the journal thread is started whatever the durability mode
JournalStartAlways(fsync) == "acquire"

\* the journal thread is started only when fsync is required
JournalStart(fsync) == IF fsync THEN "acquire" ELSE "none"

StorageInit ==
    /\ fsyncWal_ \in BOOLEAN
    /\ journalQueue_ = <<>>
    /\ entriesToSync = <<>>
    /\ jpc = JournalStart(fsyncWal_)
    /\ ri = 1
    /\ cpc = [c \in Callers |-> "idle"]
    /\ cid = [c \in Callers |-> 0]
    /\ cres = [c \in Callers |-> TRUE]
    /\ nextId = 1
    /\ handles = [i \in Ids |-> NoHandle]
    /\ syncStarted = 0
    /\ syncReturned = 0
    /\ lastSyncOk = TRUE
    /\ dpc = "alive"

\* a promise/future pair is fulfilled (value or exception) by `who`
Fulfil(hs, i, st, who) ==
    [hs EXCEPT ![i].state = st, ![i].by = who, ![i].fulfils = @ + 1]

\* ~Promise of a still unfulfilled promise: the future gets BrokenPromise
RECURSIVE BreakAll(_, _, _)
BreakAll(hs, s, who) ==
    IF s = <<>> THEN hs
    ELSE BreakAll(IF Head(s) # Sentinel /\ hs[Head(s)].state = "pending"
                  THEN Fulfil(hs, Head(s), "broken", who) ELSE hs,
                  Tail(s), who)

(* ---------------------------- Storage::put ----------------------------- *)
\* db_->Put is invoked
PutCall(c) ==
    /\ cpc[c] = "idle"
    /\ dpc = "alive"
    /\ nextId <= MaxPuts
    /\ cpc' = [cpc EXCEPT ![c] = "inPut"]
    /\ cid' = [cid EXCEPT ![c] = nextId]
    /\ nextId' = nextId + 1
    /\ handles' = [handles EXCEPT ![nextId].engineCalls = @ + 1]
    /\ UNCHANGED <<fsyncWal_, journalQueue_, entriesToSync, jpc, ri, cres,
                   syncStarted, syncReturned, lastSyncOk, dpc>>
    /\ UNCHANGED <<headerVars, codecVars>>

\* db_->Put returns its Status
PutReturn(c) ==
    /\ cpc[c] = "inPut"
    /\ \E ok \in BOOLEAN : cres' = [cres EXCEPT ![c] = ok]
    /\ cpc' = [cpc EXCEPT ![c] = "afterPut"]
    /\ handles' = [handles EXCEPT ![cid[c]].syncAtPut = syncStarted]
    /\ UNCHANGED <<fsyncWal_, journalQueue_, entriesToSync, jpc, ri, cid, nextId,
                   syncStarted, syncReturned, lastSyncOk, dpc>>
    /\ UNCHANGED <<headerVars, codecVars>>

\* variant: the caller syncs the WAL itself before handing over the promise
PutEnqueueSync(c) ==
    /\ cpc[c] = "afterPut" /\ cres[c] /\ fsyncWal_
    /\ Len(journalQueue_) < QueueCap
    /\ syncStarted' = syncStarted + 1
    /\ syncReturned' = syncReturned + 1
    /\ journalQueue_' = Append(journalQueue_, cid[c])
    /\ handles' = [handles EXCEPT ![cid[c]].state = "pending",
                                  ![cid[c]].enqueued = TRUE]
    /\ cpc' = [cpc EXCEPT ![c] = "idle"]
    /\ cid' = [cid EXCEPT ![c] = 0]
    /\ cres' = [cres EXCEPT ![c] = TRUE]
    /\ UNCHANGED <<fsyncWal_, entriesToSync, jpc, ri, nextId, lastSyncOk, dpc>>
    /\ UNCHANGED <<headerVars, codecVars>>

\* res.ok() && fsyncWal_: journalQueue_.write(promise) finds a free slot
PutEnqueue(c) ==
    /\ cpc[c] = "afterPut" /\ cres[c] /\ fsyncWal_
    /\ Len(journalQueue_) < QueueCap
    /\ journalQueue_' = Append(journalQueue_, cid[c])
    /\ handles' = [handles EXCEPT ![cid[c]].state = "pending",
                                  ![cid[c]].enqueued = TRUE]
    /\ cpc' = [cpc EXCEPT ![c] = "idle"]
    /\ cid' = [cid EXCEPT ![c] = 0]
    /\ cres' = [cres EXCEPT ![c] = TRUE]
    /\ UNCHANGED <<fsyncWal_, entriesToSync, jpc, ri, nextId,
                   syncStarted, syncReturned, lastSyncOk, dpc>>
    /\ UNCHANGED <<headerVars, codecVars>>

\* res.ok() && fsyncWal_: journalQueue_.write(promise) returns false on a full
\* queue; the result is ignored and the promise dies with put's local variable
PutQueueFull(c) ==
    /\ cpc[c] = "afterPut" /\ cres[c] /\ fsyncWal_
    /\ Len(journalQueue_) >= QueueCap
    /\ handles' = Fulfil(handles, cid[c], "broken", "dropped")
    /\ cpc' = [cpc EXCEPT ![c] = "idle"]
    /\ cid' = [cid EXCEPT ![c] = 0]
    /\ cres' = [cres EXCEPT ![c] = TRUE]
    /\ UNCHANGED <<fsyncWal_, journalQueue_, entriesToSync, jpc, ri, nextId,
                   syncStarted, syncReturned, lastSyncOk, dpc>>
    /\ UNCHANGED <<headerVars, codecVars>>

\* res.ok() && !fsyncWal_: makeFuture(Unit())
PutImmediate(c) ==
    /\ cpc[c] = "afterPut" /\ cres[c] /\ ~fsyncWal_
    /\ handles' = Fulfil(handles, cid[c], "value", "immediate")
    /\ cpc' = [cpc EXCEPT ![c] = "idle"]
    /\ cid' = [cid EXCEPT ![c] = 0]
    /\ cres' = [cres EXCEPT ![c] = TRUE]
    /\ UNCHANGED <<fsyncWal_, journalQueue_, entriesToSync, jpc, ri, nextId,
                   syncStarted, syncReturned, lastSyncOk, dpc>>
    /\ UNCHANGED <<headerVars, codecVars>>

\* variant: a rejected Put is retried once before the failure is reported
PutFailedRetry(c) ==
    /\ cpc[c] = "afterPut" /\ ~cres[c]
    /\ handles' = [Fulfil(handles, cid[c], "failed", "put")
                      EXCEPT ![cid[c]].engineCalls = @ + 1]
    /\ cpc' = [cpc EXCEPT ![c] = "idle"]
    /\ cid' = [cid EXCEPT ![c] = 0]
    /\ cres' = [cres EXCEPT ![c] = TRUE]
    /\ UNCHANGED <<fsyncWal_, journalQueue_, entriesToSync, jpc, ri, nextId,
                   syncStarted, syncReturned, lastSyncOk, dpc>>
    /\ UNCHANGED <<headerVars, codecVars>>

\* !res.ok(): makeFuture<Unit>(std::runtime_error(...))
PutFailed(c) ==
    /\ cpc[c] = "afterPut" /\ ~cres[c]
    /\ handles' = Fulfil(handles, cid[c], "failed", "put")
    /\ cpc' = [cpc EXCEPT ![c] = "idle"]
    /\ cid' = [cid EXCEPT ![c] = 0]
    /\ cres' = [cres EXCEPT ![c] = TRUE]
    /\ UNCHANGED <<fsyncWal_, journalQueue_, entriesToSync, jpc, ri, nextId,
                   syncStarted, syncReturned, lastSyncOk, dpc>>
    /\ UNCHANGED <<headerVars, codecVars>>

put(c) ==
    \/ PutCall(c)
    \/ PutReturn(c)
    \/ PutEnqueue(c)
    \/ PutQueueFull(c)
    \/ PutImmediate(c)
    \/ PutFailed(c)

(* ---------------------------- Storage::runJournal ---------------------- *)
\* limiter.aquire() grants a permit
JournalAcquire ==
    /\ jpc = "acquire"
    /\ jpc' = "drain"
    /\ UNCHANGED <<fsyncWal_, journalQueue_, entriesToSync, ri, cpc, cid, cres, nextId,
                   handles, syncStarted, syncReturned, lastSyncOk, dpc>>
    /\ UNCHANGED <<headerVars, codecVars>>

\* journalQueue_.read(promise) delivers a promise: it joins the batch
JournalRead ==
    /\ jpc = "drain"
    /\ journalQueue_ # <<>> /\ Head(journalQueue_) # Sentinel
    /\ entriesToSync' = Append(entriesToSync, Head(journalQueue_))
    /\ journalQueue_' = Tail(journalQueue_)
    /\ UNCHANGED <<fsyncWal_, jpc, ri, cpc, cid, cres, nextId,
                   handles, syncStarted, syncReturned, lastSyncOk, dpc>>
    /\ UNCHANGED <<headerVars, codecVars>>

\* variant: the batch collected so far is acknowledged before returning
JournalReadSentinelFlush ==
    /\ jpc = "drain"
    /\ journalQueue_ # <<>> /\ Head(journalQueue_) = Sentinel
    /\ journalQueue_' = Tail(journalQueue_)
    /\ handles' = [i \in Ids |->
                      IF \E k \in 1..Len(entriesToSync) : entriesToSync[k] = i
                      THEN Fulfil(handles, i, "value", "worker")[i] ELSE handles[i]]
    /\ entriesToSync' = <<>>
    /\ jpc' = "stopped"
    /\ UNCHANGED <<fsyncWal_, ri, cpc, cid, cres, nextId,
                   syncStarted, syncReturned, lastSyncOk, dpc>>
    /\ UNCHANGED <<headerVars, codecVars>>

\* variant: the batch holds raw pointers, so returning leaks its promises
JournalReadSentinelLeak ==
    /\ jpc = "drain"
    /\ journalQueue_ # <<>> /\ Head(journalQueue_) = Sentinel
    /\ journalQueue_' = Tail(journalQueue_)
    /\ entriesToSync' = <<>>
    /\ jpc' = "stopped"
    /\ UNCHANGED <<fsyncWal_, ri, cpc, cid, cres, nextId, handles,
                   syncStarted, syncReturned, lastSyncOk, dpc>>
    /\ UNCHANGED <<headerVars, codecVars>>

\* journalQueue_.read(promise) delivers nullptr: return; the local batch is
\* destroyed together with the promises it still owns
JournalReadSentinel ==
    /\ jpc = "drain"
    /\ journalQueue_ # <<>> /\ Head(journalQueue_) = Sentinel
    /\ journalQueue_' = Tail(journalQueue_)
    /\ handles' = BreakAll(handles, entriesToSync, "discarded")
    /\ entriesToSync' = <<>>
    /\ jpc' = "stopped"
    /\ UNCHANGED <<fsyncWal_, ri, cpc, cid, cres, nextId,
                   syncStarted, syncReturned, lastSyncOk, dpc>>
    /\ UNCHANGED <<headerVars, codecVars>>

\* variant: the empty check is missing, SyncWAL is called for an empty batch
JournalDrainEmptySync ==
    /\ jpc = "drain"
    /\ journalQueue_ = <<>> /\ entriesToSync = <<>>
    /\ jpc' = "syncing"
    /\ syncStarted' = syncStarted + 1
    /\ UNCHANGED <<fsyncWal_, journalQueue_, entriesToSync, ri, cpc, cid, cres, nextId,
                   handles, syncReturned, lastSyncOk, dpc>>
    /\ UNCHANGED <<headerVars, codecVars>>

\* the queue is empty and so is the batch: continue
JournalDrainEmpty ==
    /\ jpc = "drain"
    /\ journalQueue_ = <<>> /\ entriesToSync = <<>>
    /\ jpc' = "acquire"
    /\ UNCHANGED <<fsyncWal_, journalQueue_, entriesToSync, ri, cpc, cid, cres, nextId,
                   handles, syncStarted, syncReturned, lastSyncOk, dpc>>
    /\ UNCHANGED <<headerVars, codecVars>>

\* variant: the batch is acknowledged without calling db_->SyncWAL()
JournalSyncSkipped ==
    /\ jpc = "drain"
    /\ journalQueue_ = <<>> /\ entriesToSync # <<>>
    /\ jpc' = "resolve"
    /\ ri' = 1
    /\ UNCHANGED <<fsyncWal_, journalQueue_, entriesToSync, cpc, cid, cres, nextId,
                   handles, syncStarted, syncReturned, lastSyncOk, dpc>>
    /\ UNCHANGED <<headerVars, codecVars>>

\* the queue is empty and the batch is not: db_->SyncWAL() is invoked
JournalSyncCall ==
    /\ jpc = "drain"
    /\ journalQueue_ = <<>> /\ entriesToSync # <<>>
    /\ jpc' = "syncing"
    /\ syncStarted' = syncStarted + 1
    /\ UNCHANGED <<fsyncWal_, journalQueue_, entriesToSync, ri, cpc, cid, cres, nextId,
                   handles, syncReturned, lastSyncOk, dpc>>
    /\ UNCHANGED <<headerVars, codecVars>>

\* variant: the resolve loop starts at the second promise of the batch
JournalSyncReturnSkipFirst ==
    /\ jpc = "syncing"
    /\ \E ok \in BOOLEAN : lastSyncOk' = ok
    /\ syncReturned' = syncReturned + 1
    /\ ri' = 2
    /\ jpc' = "resolve"
    /\ UNCHANGED <<fsyncWal_, journalQueue_, entriesToSync, cpc, cid, cres, nextId,
                   handles, syncStarted, dpc>>
    /\ UNCHANGED <<headerVars, codecVars>>

\* db_->SyncWAL() returns; its Status is not looked at
JournalSyncReturn ==
    /\ jpc = "syncing"
    /\ \E ok \in BOOLEAN : lastSyncOk' = ok
    /\ syncReturned' = syncReturned + 1
    /\ ri' = 1
    /\ jpc' = "resolve"
    /\ UNCHANGED <<fsyncWal_, journalQueue_, entriesToSync, cpc, cid, cres, nextId,
                   handles, syncStarted, dpc>>
    /\ UNCHANGED <<headerVars, codecVars>>

\* one iteration of: for (auto& pr : entriesToSync) pr->setValue(unit)
JournalResolve ==
    /\ jpc = "resolve"
    /\ ri <= Len(entriesToSync)
    /\ handles' = [Fulfil(handles, entriesToSync[ri], "value", "worker")
                      EXCEPT ![entriesToSync[ri]].syncOk = lastSyncOk]
    /\ ri' = ri + 1
    /\ UNCHANGED <<fsyncWal_, journalQueue_, entriesToSync, jpc, cpc, cid, cres, nextId,
                   syncStarted, syncReturned, lastSyncOk, dpc>>
    /\ UNCHANGED <<headerVars, codecVars>>

\* entriesToSync.clear()
JournalClear ==
    /\ jpc = "resolve"
    /\ ri > Len(entriesToSync)
    /\ entriesToSync' = <<>>
    /\ ri' = 1
    /\ jpc' = "acquire"
    /\ UNCHANGED <<fsyncWal_, journalQueue_, cpc, cid, cres, nextId,
                   handles, syncStarted, syncReturned, lastSyncOk, dpc>>
    /\ UNCHANGED <<headerVars, codecVars>>

runJournal ==
    \/ JournalAcquire
    \/ JournalRead
    \/ JournalReadSentinel
    \/ JournalDrainEmpty
    \/ JournalSyncCall
    \/ JournalSyncReturn
    \/ JournalResolve
    \/ JournalClear

(* ---------------------------- Storage::~Storage ------------------------ *)
\* the object is destroyed only once no caller is inside put()
NoCallerInPut == \A c \in Callers : cpc[c] = "idle"

\* journalQueue_.blockingWrite(nullptr): waits for a free slot
DestructorSentinel ==
    /\ dpc = "alive" /\ NoCallerInPut
    /\ fsyncWal_
    /\ Len(journalQueue_) < QueueCap
    /\ journalQueue_' = Append(journalQueue_, Sentinel)
    /\ dpc' = "joining"
    /\ UNCHANGED <<fsyncWal_, entriesToSync, jpc, ri, cpc, cid, cres, nextId,
                   handles, syncStarted, syncReturned, lastSyncOk>>
    /\ UNCHANGED <<headerVars, codecVars>>

\* variant: the engine is deleted without joining the journal thread
DestructorJoinNoWait ==
    /\ dpc = "joining"
    /\ dpc' = "released"
    /\ UNCHANGED <<fsyncWal_, journalQueue_, entriesToSync, jpc, ri, cpc, cid, cres,
                   nextId, handles, syncStarted, syncReturned, lastSyncOk>>
    /\ UNCHANGED <<headerVars, codecVars>>

\* journalThread_.join() returns once runJournal returned; delete db_
DestructorJoin ==
    /\ dpc = "joining"
    /\ jpc = "stopped"
    /\ dpc' = "released"
    /\ UNCHANGED <<fsyncWal_, journalQueue_, entriesToSync, jpc, ri, cpc, cid, cres,
                   nextId, handles, syncStarted, syncReturned, lastSyncOk>>
    /\ UNCHANGED <<headerVars, codecVars>>

\* !fsyncWal_: delete db_ right away
DestructorNoJournal ==
    /\ dpc = "alive" /\ NoCallerInPut
    /\ ~fsyncWal_
    /\ dpc' = "released"
    /\ UNCHANGED <<fsyncWal_, journalQueue_, entriesToSync, jpc, ri, cpc, cid, cres,
                   nextId, handles, syncStarted, syncReturned, lastSyncOk>>
    /\ UNCHANGED <<headerVars, codecVars>>

\* the members are destroyed: what is left in journalQueue_ dies with it
DestructorMembers ==
    /\ dpc = "released"
    /\ handles' = BreakAll(handles, journalQueue_, "destroyed")
    /\ journalQueue_' = <<>>
    /\ dpc' = "destroyed"
    /\ UNCHANGED <<fsyncWal_, entriesToSync, jpc, ri, cpc, cid, cres,
                   nextId, syncStarted, syncReturned, lastSyncOk>>
    /\ UNCHANGED <<headerVars, codecVars>>

Destructor ==
    \/ DestructorSentinel
    \/ DestructorJoin
    \/ DestructorNoJournal
    \/ DestructorMembers

(* ---------------------------- PacketHeader --------------------------- *)
\* BookieOperation
AddEntry == 1
ReadEntry == 2
Auth == 3
BookieOperation == {AddEntry, ReadEntry, Auth}

\* BookieConstant::MasterKeyLength
MasterKeyLength == 20

\* two's complement value of the low 8 bits: the cast to int8_t
Int8(x) == IF x % 256 >= 128 THEN (x % 256) - 256 ELSE x % 256

\* PacketHeader::fromInt: value >> 24, (value >> 16) & 0xFF, value & 0xFF
fromInt(value) ==
    [version |-> Int8(value \div 16777216),
     opCode  |-> (value \div 65536) % 256,
     flags   |-> value % 256]

\* PacketHeader::toInt, the result as a 32 bit two's complement int:
\* ((version & 0xFF) << 24) | (((int8_t) opCode & 0xFF) << 16) | (flags & 0xFFFF)
toInt(h) ==
    Int8(h.version % 256) * 16777216 + (h.opCode % 256) * 65536 + (h.flags % 65536)

(* ---------------------------- byte buffers ----------------------------- *)
\* writeBE<int32_t>
writeBE32(v) ==
    <<(v \div 16777216) % 256, (v \div 65536) % 256, (v \div 256) % 256, v % 256>>

\* readBE<int32_t>
readBE32(b) == Int8(b[1]) * 16777216 + b[2] * 65536 + b[3] * 256 + b[4]

\* a 64 bit integer is kept as four 16 bit limbs, most significant first
\* writeBE<int64_t>
writeBE64(x) ==
    <<x[1] \div 256, x[1] % 256, x[2] \div 256, x[2] % 256,
      x[3] \div 256, x[3] % 256, x[4] \div 256, x[4] % 256>>

\* variant: the eight bytes are taken least significant first
readLE64(b) ==
    <<b[8] * 256 + b[7], b[6] * 256 + b[5], b[4] * 256 + b[3], b[2] * 256 + b[1]>>

\* readBE<int64_t>
readBE64(b) ==
    <<b[1] * 256 + b[2], b[3] * 256 + b[4], b[5] * 256 + b[6], b[7] * 256 + b[8]>>

\* the cursor writes bytes w over buf from position pos (1-based) on
Overwrite(buf, pos, w) ==
    [k \in 1..Len(buf) |->
        IF k >= pos /\ k < pos + Len(w) THEN w[k - pos + 1] ELSE buf[k]]

\* the bytes of an IOBuf chain: computeChainDataLength() is their number
RECURSIVE Flatten(_)
Flatten(chain) ==
    IF chain = <<>> THEN <<>> ELSE Head(chain) \o Flatten(Tail(chain))

\* RWPrivateCursor::insert: the chain goes in after the first pos bytes
Insert(buf, pos, chain) ==
    SubSeq(buf, 1, pos) \o Flatten(chain) \o SubSeq(buf, pos + 1, Len(buf))

\* a field the decoder did not assign
Unset == <<>>

\* Request::isFencing: the low bit of flags
isFencing(request) == request.flags % 2 = 1

(* ---------------------------- BookieClientCodecV2::write --------------- *)
\* the buffer passed to fireWrite; fill is the content of the bytes that
\* IOBuf::create left uninitialised
BookieClientCodecV2_write(request, fill) ==
    LET headerSize == 4 + MasterKeyLength + 2 * 8
        frameSize  == headerSize + Len(Head(request.data))
        bufferSize == headerSize + 4
        pktHeader  == [version |-> request.protocolVersion,
                       opCode  |-> request.opCode,
                       flags   |-> request.flags]
        buffer     == [k \in 1..bufferSize |-> fill]
        withSize   == Overwrite(buffer, 1, writeBE32(frameSize))
        withHeader == Overwrite(withSize, 5, writeBE32(toInt(pktHeader)))
        pos        == 8 + MasterKeyLength
    IN  IF request.opCode = AddEntry
        THEN Insert(Overwrite(Overwrite(withHeader, pos + 1, writeBE64(request.ledgerId)),
                              pos + 9, writeBE64(request.entryId)),
                    pos + 16, request.data)
        ELSE withHeader

(* ---------------------------- BookieServerCodecV2::read ---------------- *)
FireClose == <<[type |-> "fireClose"]>>
FireRead(msg) == <<[type |-> "fireRead", msg |-> msg]>>

\* addRequestSize
addRequestSize == MasterKeyLength + 2 * 8

\* variant: the master key of a fencing read is not counted
readRequestSizeNoKey(request) == 2 * 8

\* readRequestSize
readRequestSize(request) ==
    2 * 8 + (IF isFencing(request) THEN MasterKeyLength ELSE 0)

\* what the decoder fires for a non-null buffer
BookieServerCodecV2_read(buf) ==
    IF Len(buf) < 4 THEN FireClose
    ELSE
    LET h       == fromInt(readBE32(SubSeq(buf, 1, 4)))
        rest    == SubSeq(buf, 5, Len(buf))
        request == [protocolVersion |-> h.version, opCode |-> h.opCode,
                    flags |-> h.flags, ledgerId |-> Unset, entryId |-> Unset,
                    data |-> <<>>]
    IN  CASE request.opCode = AddEntry ->
                IF Len(rest) < addRequestSize THEN FireClose
                ELSE FireRead([request EXCEPT
                        !.ledgerId = readBE64(SubSeq(rest, MasterKeyLength + 1,
                                                     MasterKeyLength + 8)),
                        !.entryId  = readBE64(SubSeq(rest, MasterKeyLength + 9,
                                                     MasterKeyLength + 16)),
                        !.data     = <<SubSeq(rest, MasterKeyLength + 17, Len(rest))>>])
          [] request.opCode = ReadEntry ->
                IF Len(rest) < readRequestSize(request) THEN FireClose
                ELSE FireRead([request EXCEPT
                        !.ledgerId = readBE64(SubSeq(rest, 1, 8)),
                        !.entryId  = readBE64(SubSeq(rest, 9, 16))])
          [] OTHER -> FireRead(request)

(* ---------------------------- BookieServerCodecV2::write --------------- *)
\* the buffer passed to fireWrite; fill is the content of the bytes that
\* IOBuf::create left uninitialised
BookieServerCodecV2_write(response, fill) ==
    LET headerSize == 4 + 24
        frameSize  == headerSize
        bufferSize == frameSize + 4
        pktHeader  == [version |-> response.protocolVersion,
                       opCode  |-> response.opCode,
                       flags   |-> 0]
        buf        == [k \in 1..bufferSize |-> fill]
        withSize   == Overwrite(buf, 1, writeBE32(frameSize))
        withHeader == Overwrite(withSize, 5, writeBE32(toInt(pktHeader)))
    IN  IF response.opCode \in {AddEntry, ReadEntry}
        THEN Overwrite(Overwrite(Overwrite(withHeader, 9, writeBE32(response.errorCode)),
                                 13, writeBE64(response.ledgerId)),
                       21, writeBE64(response.entryId))
        ELSE withHeader

(* ---------------------------- BookieClientCodecV2::read ---------------- *)
\* a readBE past the end of the buffer throws std::out_of_range out of
\* read(); nothing is fired
OutOfRange == <<[type |-> "out_of_range"]>>

\* what the decoder fires for a non-null buffer
BookieClientCodecV2_read(buf) ==
    IF Len(buf) < 4 THEN FireClose
    ELSE
    LET h        == fromInt(readBE32(SubSeq(buf, 1, 4)))
        rest     == SubSeq(buf, 5, Len(buf))
        response == [protocolVersion |-> h.version, opCode |-> h.opCode,
                     errorCode |-> 0, ledgerId |-> Unset, entryId |-> Unset,
                     data |-> <<>>]
    IN  IF response.opCode \in {AddEntry, ReadEntry}
        THEN IF Len(rest) < 4 + 8 + 8 THEN OutOfRange
             ELSE FireRead([response EXCEPT
                     !.errorCode = readBE32(SubSeq(rest, 1, 4)),
                     !.ledgerId  = readBE64(SubSeq(rest, 5, 12)),
                     !.entryId   = readBE64(SubSeq(rest, 13, 20))])
        ELSE FireRead(response)

(* ---------------------------- codec inputs ----------------------------- *)
\* longest entry payload
MaxPayloadLen == 2

VersionSamples == {-128, -1, 0, 2, 127}
FlagSamples == {-32768, -256, -1, 0, 1, 2, 255, 256, 257, 32767}
Int64Samples == {<<0, 0, 0, 0>>, <<0, 0, 0, 1>>, <<258, 772, 1286, 1800>>,
                 <<32768, 0, 0, 0>>, <<65535, 65535, 65535, 65535>>}
ByteSamples == {0, 255}
FillSamples == {0, 90, 255}

PayloadBytes == UNION {[1..n -> ByteSamples] : n \in 0..MaxPayloadLen}
\* an entry payload is an IOBuf chain of one or of two buffers
Payloads ==
    {<<b>> : b \in PayloadBytes}
    \cup {<<SubSeq(b, 1, 1), SubSeq(b, 2, Len(b))>> : b \in {x \in PayloadBytes : Len(x) >= 2}}

NoHeader == [version |-> 0, opCode |-> AddEntry, flags |-> 0]
NoRequest == [protocolVersion |-> 0, opCode |-> AddEntry, flags |-> 0,
              ledgerId |-> Unset, entryId |-> Unset, data |-> <<>>]

HeaderIdle == hdr = NoHeader /\ hword = 0 /\ hdr2 = NoHeader /\ hpc = "off"
NoResponse == [protocolVersion |-> 0, opCode |-> AddEntry, errorCode |-> 0,
               ledgerId |-> Unset, entryId |-> Unset, data |-> <<>>]

CodecIdle ==
    /\ creq = NoRequest /\ wire = <<>> /\ inbuf = <<>> /\ fired = <<>> /\ kpc = "off"
    /\ cresp = NoResponse
StorageIdle == StorageInit /\ ~fsyncWal_

(* ---------------------------- header round trip ------------------------ *)
HeaderInit ==
    /\ hdr \in [version : -128..127, opCode : BookieOperation, flags : FlagSamples]
    /\ hword = 0 /\ hdr2 = NoHeader /\ hpc = "start"
    /\ StorageIdle /\ CodecIdle

HeaderPack ==
    /\ hpc = "start"
    /\ hword' = toInt(hdr)
    /\ hpc' = "packed"
    /\ UNCHANGED <<hdr, hdr2, storageVars, codecVars>>

HeaderUnpack ==
    /\ hpc = "packed"
    /\ hdr2' = fromInt(hword)
    /\ hpc' = "unpacked"
    /\ UNCHANGED <<hdr, hword, storageVars, codecVars>>

HeaderNext == HeaderPack \/ HeaderUnpack

HeaderSpec == HeaderInit /\ [][HeaderNext]_vars

(* ---------------------------- request path ----------------------------- *)
CodecInit ==
    /\ creq \in [protocolVersion : {-1, 2}, opCode : BookieOperation,
                 flags : {0, 1, 256}, ledgerId : Int64Samples,
                 entryId : {<<0, 0, 0, 7>>, <<258, 772, 1286, 1800>>},
                 data : Payloads]
    /\ wire = <<>> /\ inbuf = <<>> /\ fired = <<>> /\ kpc = "start"
    /\ cresp = NoResponse
    /\ StorageIdle /\ HeaderIdle

\* the client encodes the request
ClientWrite ==
    /\ kpc = "start"
    /\ \E fill \in FillSamples : wire' = BookieClientCodecV2_write(creq, fill)
    /\ kpc' = "written"
    /\ UNCHANGED <<creq, cresp, inbuf, fired, storageVars, headerVars>>

\* the frame reaches the server codec without its 4 byte length prefix
StripLengthPrefix ==
    /\ kpc = "written"
    /\ inbuf' = SubSeq(wire, 5, Len(wire))
    /\ kpc' = "framed"
    /\ UNCHANGED <<creq, cresp, wire, fired, storageVars, headerVars>>

\* the server decodes the buffer
ServerRead ==
    /\ kpc = "framed"
    /\ fired' = fired \o BookieServerCodecV2_read(inbuf)
    /\ kpc' = "decoded"
    /\ UNCHANGED <<creq, cresp, wire, inbuf, storageVars, headerVars>>

CodecNext == ClientWrite \/ StripLengthPrefix \/ ServerRead

CodecSpec == CodecInit /\ [][CodecNext]_vars

(* ---------------------------- both encoders --------------------------- *)
ResponseInit ==
    /\ cresp \in [protocolVersion : {-1, 2}, opCode : BookieOperation,
                  errorCode : {0, 1, 104}, ledgerId : Int64Samples,
                  entryId : {<<0, 0, 0, 7>>, <<258, 772, 1286, 1800>>},
                  data : {<<>>, <<<<0, 255>>>>}]
    /\ creq = NoRequest
    /\ wire = <<>> /\ inbuf = <<>> /\ fired = <<>> /\ kpc = "rstart"
    /\ StorageIdle /\ HeaderIdle

\* the server encodes the response
ServerWrite ==
    /\ kpc = "rstart"
    /\ \E fill \in FillSamples : wire' = BookieServerCodecV2_write(cresp, fill)
    /\ kpc' = "rwritten"
    /\ UNCHANGED <<creq, cresp, inbuf, fired, storageVars, headerVars>>

EncodeInit == CodecInit \/ ResponseInit

EncodeNext == ClientWrite \/ ServerWrite

EncodeSpec == EncodeInit /\ [][EncodeNext]_vars

(* ---------------------------- both decoders --------------------------- *)
\* bytes a received buffer may carry beyond the largest per-opcode minimum
MaxExtra == 1

\* an opcode byte outside BookieOperation
UnknownOp == 7

\* buffers too short to hold the header
ShortBuffers == UNION {[1..n -> ByteSamples] : n \in 0..3}

\* a packed header followed by n more bytes
HeaderBuffers ==
    {writeBE32(toInt([version |-> v, opCode |-> op, flags |-> f])) \o [k \in 1..n |-> b] :
        v \in {-1, 2}, op \in BookieOperation \cup {UnknownOp},
        f \in {0, 1, 2, 255, 256, 257},
        n \in 0..(MasterKeyLength + 16 + MaxExtra), b \in {1, 255}}

DecodeInit ==
    /\ inbuf \in ShortBuffers \cup HeaderBuffers
    /\ kpc \in {"framed", "rframed"}
    /\ creq = NoRequest /\ cresp = NoResponse
    /\ wire = <<>> /\ fired = <<>>
    /\ StorageIdle /\ HeaderIdle

\* variant: a buffer shorter than the header is ignored like a null buffer
ClientReadLenient ==
    /\ kpc = "rframed"
    /\ fired' = fired \o (IF Len(inbuf) < 4 THEN <<>> ELSE BookieClientCodecV2_read(inbuf))
    /\ kpc' = "rdecoded"
    /\ UNCHANGED <<creq, cresp, wire, inbuf, storageVars, headerVars>>

\* the client decodes the buffer
ClientRead ==
    /\ kpc = "rframed"
    /\ fired' = fired \o BookieClientCodecV2_read(inbuf)
    /\ kpc' = "rdecoded"
    /\ UNCHANGED <<creq, cresp, wire, inbuf, storageVars, headerVars>>

DecodeNext == ServerRead \/ ClientRead

DecodeSpec == DecodeInit /\ [][DecodeNext]_vars

(* ---------------------------- specifications --------------------------- *)
Init == StorageInit /\ HeaderIdle /\ CodecIdle

Next ==
    \/ \E c \in Callers : put(c)
    \/ runJournal
    \/ Destructor

Spec == Init /\ [][Next]_vars

\* the journal thread is scheduled fairly and the limiter keeps granting
FairSpec == Spec /\ WF_vars(runJournal)

\* so is the thread running the destructor, once the sentinel is written
ShutdownSpec ==
    Spec /\ WF_vars(runJournal) /\ WF_vars(DestructorJoin \/ DestructorMembers)

TypeOK ==
    /\ fsyncWal_ \in BOOLEAN
    /\ jpc \in {"none", "acquire", "drain", "syncing", "resolve", "stopped"}
    /\ dpc \in {"alive", "joining", "released", "destroyed"}
    /\ Len(journalQueue_) <= QueueCap
    /\ nextId \in 1..(MaxPuts + 1)

(* ---------------------------- journal properties ----------------------- *)
InSeq(x, s) == \E k \in 1..Len(s) : s[k] = x

\* a put whose engine Put succeeded and that has returned its future
Created(i) == handles[i].state \notin {"none", "failed"}

\* C1: in durable mode a handle is resolved with a value only once a SyncWAL
\* call that was started after the handle's engine Put returned has itself
\* returned: some call k with syncAtPut < k <= syncReturned exists.
C1_ResolvedAfterSync ==
    \A i \in Ids :
        (fsyncWal_ /\ handles[i].state = "value") =>
            /\ handles[i].by = "worker"
            /\ handles[i].syncAtPut < syncReturned

\* a handle whose Put returned after an earlier SyncWAL had started was resolved
C1_Witness ==
    \E i \in Ids : handles[i].by = "worker" /\ handles[i].syncAtPut >= 1

\* C2: the worker resolves a handle with success only when the SyncWAL call
\* covering its batch returned a success status.
C2_SuccessOnlyAfterSyncOk ==
    \A i \in Ids :
        (handles[i].by = "worker" /\ handles[i].state = "value") => handles[i].syncOk

\* C3: when the worker has stopped, every handle that put enqueued has been
\* resolved by the worker; none is left unresolved or discarded.
C3_ShutdownDrains ==
    jpc = "stopped" =>
        \A i \in Ids : handles[i].enqueued =>
            (handles[i].state = "value" /\ handles[i].by = "worker")

\* C4: in durable mode every handle created by a successful put is placed in
\* the journal queue; it is never dropped because the queue was full.
C4_Backpressure ==
    \A i \in Ids : (fsyncWal_ /\ Created(i)) => handles[i].enqueued

\* C5: in durable mode, under a fairly scheduled worker, every pending handle
\* eventually reaches a terminal state.
C5_EventuallyTerminal ==
    \A i \in Ids :
        (fsyncWal_ /\ handles[i].state = "pending") ~> (handles[i].state # "pending")

\* after shutdown one handle was resolved by a sync cycle and another one
\* reached its terminal state when the worker returned
C5_Witness ==
    \E i, j \in Ids :
        /\ handles[i].by = "worker"
        /\ handles[j].by = "discarded"
        /\ jpc = "stopped"

\* C6: without fsync no journal worker exists, nothing is ever enqueued,
\* SyncWAL is never called (destruction included) and every put whose
\* engine Put succeeded returned an already resolved success.
C6_NonDurable ==
    ~fsyncWal_ =>
        /\ jpc = "none"
        /\ journalQueue_ = <<>> /\ entriesToSync = <<>>
        /\ syncStarted = 0 /\ syncReturned = 0
        /\ \A i \in Ids : Created(i) =>
              /\ handles[i].state = "value" /\ handles[i].by = "immediate"
              /\ handles[i].fulfils = 1 /\ ~handles[i].enqueued

\* a non-durable store served a put and was destroyed
C6_Witness ==
    /\ ~fsyncWal_ /\ dpc = "destroyed"
    /\ \E i \in Ids : handles[i].by = "immediate"

\* C7: a put whose engine Put was rejected returns an already failed
\* completion, has called the engine once, has enqueued nothing, and leaves
\* the journal queue and the worker's batch as they were.
C7_FailedPut ==
    /\ [](\A i \in Ids : handles[i].state = "failed" =>
            /\ handles[i].engineCalls = 1 /\ handles[i].fulfils = 1
            /\ ~handles[i].enqueued
            /\ ~InSeq(i, journalQueue_) /\ ~InSeq(i, entriesToSync))
    /\ [][\A c \in Callers :
            (cpc[c] = "afterPut" /\ ~cres[c] /\ cpc'[c] = "idle") =>
                /\ handles'[cid[c]].state = "failed"
                /\ journalQueue_' = journalQueue_
                /\ entriesToSync' = entriesToSync]_vars

\* a put failed in durable mode while the queue and the batch were in use
C7_Witness ==
    /\ fsyncWal_ /\ journalQueue_ # <<>> /\ entriesToSync # <<>>
    /\ \E i \in Ids : handles[i].state = "failed"

\* C8: every handle is fulfilled at most once, by the immediate path in
\* non-durable mode or by the journal worker in durable mode, and a handle
\* the worker has resolved is neither in the queue nor in the worker's batch.
C8_FulfilledOnce ==
    \A i \in Ids :
        /\ handles[i].fulfils <= 1
        /\ Created(i) /\ handles[i].fulfils = 1 =>
              \/ ~fsyncWal_ /\ handles[i].by = "immediate"
              \/ fsyncWal_ /\ handles[i].by = "worker"
        /\ handles[i].by = "worker" =>
              ~InSeq(i, journalQueue_) /\ ~InSeq(i, entriesToSync)

(* ---------------------------- codec properties ------------------------- *)
\* C9: unpacking a packed header gives the header back, field by field.
C9_HeaderRoundTrip ==
    hpc = "unpacked" =>
        /\ hdr2.version = hdr.version
        /\ hdr2.opCode = hdr.opCode
        /\ hdr2.flags = hdr.flags

\* C10: the server decoder fed with the client's AddEntry frame, length
\* prefix removed, fires exactly one Request, with opCode AddEntry, the same
\* ledgerId and entryId and byte-identical data, and no close.
C10_AddEntryRoundTrip ==
    (kpc = "decoded" /\ creq.opCode = AddEntry) =>
        /\ Len(fired) = 1
        /\ fired[1].type = "fireRead"
        /\ fired[1].msg.opCode = AddEntry
        /\ fired[1].msg.ledgerId = creq.ledgerId
        /\ fired[1].msg.entryId = creq.entryId
        /\ Flatten(fired[1].msg.data) = Flatten(creq.data)

\* an AddEntry request with a two-buffer payload and a ledgerId whose bytes
\* all differ was decoded
C10_Witness ==
    /\ kpc = "decoded" /\ creq.opCode = AddEntry
    /\ Len(creq.data) = 2 /\ creq.ledgerId = <<258, 772, 1286, 1800>>
    /\ fired # <<>>

(* ---------------------------- decoder and encoder properties ----------- *)
Decoded == kpc \in {"decoded", "rdecoded"}
FiredOneRead == Len(fired) = 1 /\ fired[1].type = "fireRead"

\* C11: either decoder, given a non-null buffer of fewer than 4 bytes, fires
\* close exactly once and no parsed message.
C11_ShortBufferCloses ==
    (Decoded /\ Len(inbuf) < 4) => fired = FireClose

\* the client decoder was given a 3 byte buffer
C11_Witness ==
    kpc = "rdecoded" /\ Len(inbuf) = 3 /\ fired # <<>>

\* C12: the server decoder closes on an AddEntry request with fewer than
\* MasterKeyLength + 16 bytes after the header and on a ReadEntry request
\* with fewer than 16 (+ MasterKeyLength when the fencing bit is set) bytes
\* after the header; a request meeting the minimum is parsed, without close.
C12_RequestMinimumLength ==
    (kpc = "decoded" /\ Len(inbuf) >= 4) =>
        LET op      == inbuf[2]
            fencing == inbuf[4] % 2 = 1
            rest    == Len(inbuf) - 4
            minimum == IF op = AddEntry THEN MasterKeyLength + 16
                       ELSE 16 + (IF fencing THEN MasterKeyLength ELSE 0)
        IN  op \in {AddEntry, ReadEntry} =>
                IF rest < minimum THEN fired = FireClose ELSE FiredOneRead

\* a fencing ReadEntry request one byte short of its minimum was decoded
C12_Witness ==
    /\ kpc = "decoded" /\ Len(inbuf) = 4 + 16 + MasterKeyLength - 1
    /\ inbuf[2] = ReadEntry /\ inbuf[4] % 2 = 1
    /\ fired # <<>>

\* C13: the frameSize in the first 4 bytes of every emitted frame is the
\* number of bytes that follow them.
C13_FrameSizeExact ==
    kpc \in {"written", "rwritten"} => readBE32(SubSeq(wire, 1, 4)) = Len(wire) - 4

\* C19: the client decoder closes on an AddEntry or ReadEntry response with
\* fewer than 20 bytes after the header and never parses it.
C19_ResponseMinimumLength ==
    (kpc = "rdecoded" /\ Len(inbuf) >= 4 /\ inbuf[2] \in {AddEntry, ReadEntry}
        /\ Len(inbuf) - 4 < 20) => fired = FireClose

\* C20: the frame of a ReadEntry or Auth request is the frameSize followed by
\* the packed header and nothing else, and the frameSize is 4.
C20_HeaderOnlyRequest ==
    (kpc = "written" /\ creq.opCode \in {ReadEntry, Auth}) =>
        /\ Len(wire) = 8
        /\ readBE32(SubSeq(wire, 1, 4)) = 4
        /\ SubSeq(wire, 5, 8) = writeBE32(toInt([version |-> creq.protocolVersion,
                                                 opCode |-> creq.opCode,
                                                 flags |-> creq.flags]))

(* ---------------------------- journal properties, continued ------------ *)
EngineReleased == dpc \in {"released", "destroyed"}
NoNewResolution == \A i \in Ids : handles'[i].by = "worker" => handles[i].by = "worker"

\* C14: in durable mode the destructor writes the sentinel, the engine is
\* released only once the worker has stopped, no SyncWAL is in flight or
\* started once the engine is released, and the destructor runs to its end.
C14_DestructionOrder ==
    /\ []((fsyncWal_ /\ EngineReleased) =>
            (jpc = "stopped" /\ syncStarted = syncReturned))
    /\ [][(fsyncWal_ /\ EngineReleased) => syncStarted' = syncStarted]_vars
    /\ [][(fsyncWal_ /\ dpc = "alive" /\ dpc' # "alive") =>
            (dpc' = "joining" /\ journalQueue_' = Append(journalQueue_, Sentinel))]_vars
    /\ ((fsyncWal_ /\ dpc = "joining") ~> (dpc = "destroyed" /\ jpc = "stopped"))

\* a durable store that has synced at least once was destroyed
C14_Witness ==
    fsyncWal_ /\ dpc = "destroyed" /\ syncReturned >= 1

\* C15: SyncWAL is called only when a drain ends, once if the batch is not
\* empty and the sentinel was not read, not at all otherwise.
C15_OneSyncPerBatch ==
    [][/\ (jpc = "drain" /\ jpc' # "drain") =>
            syncStarted' - syncStarted =
                (IF entriesToSync # <<>> /\ jpc' # "stopped" THEN 1 ELSE 0)
       /\ (jpc # "drain" \/ jpc' = "drain") => syncStarted' = syncStarted]_vars

\* two batches were synced and the worker then read the sentinel
C15_Witness ==
    syncStarted >= 2 /\ jpc = "stopped"

\* C16: SyncWAL calls never overlap and are made by the journal worker only.
C16_SingleSyncer ==
    /\ [](/\ syncStarted - syncReturned \in {0, 1}
          /\ (syncStarted # syncReturned) <=> (jpc = "syncing"))
    /\ [][(syncStarted' # syncStarted \/ syncReturned' # syncReturned) =>
            (jpc \in {"drain", "syncing"} /\ jpc' # jpc /\ cpc' = cpc)]_vars

\* every caller is inside the engine's Put while a SyncWAL is in flight
C16_Witness ==
    jpc = "syncing" /\ \A c \in Callers : cpc[c] = "inPut"

\* C17: the worker stops only by reading the sentinel, and from then on it
\* calls no SyncWAL and resolves no handle, the ones in its batch included;
\* it never leaves the stopped state.
C17_SentinelStops ==
    [][/\ jpc = "stopped" =>
            (jpc' = "stopped" /\ syncStarted' = syncStarted /\ NoNewResolution)
       /\ (jpc # "stopped" /\ jpc' = "stopped") =>
            /\ jpc = "drain"
            /\ journalQueue_ # <<>> /\ Head(journalQueue_) = Sentinel
            /\ syncStarted' = syncStarted /\ NoNewResolution]_vars

\* the worker stopped while it held a handle in its batch
C17_Witness ==
    jpc = "stopped" /\ \E i \in Ids : handles[i].by = "discarded"

\* C18: when the worker resolves a handle, every handle drained into an
\* earlier batch and every handle before it in its own batch is resolved.
C18_CrossBatchOrder ==
    [][\A b \in Ids : (handles'[b].by = "worker" /\ handles[b].by # "worker") =>
          /\ \A a \in Ids \ {b} :
                (handles[a].enqueued /\ ~InSeq(a, journalQueue_)
                    /\ ~InSeq(a, entriesToSync)) => handles[a].state # "pending"
          /\ \A k \in 1..Len(entriesToSync) : entriesToSync[k] = b =>
                \A m \in 1..(k - 1) : handles[entriesToSync[m]].by = "worker"]_vars

\* two batches were resolved
C18_Witness ==
    /\ syncReturned >= 2 /\ jpc = "acquire"
    /\ \E a, b \in Ids : a # b /\ handles[a].by = "worker" /\ handles[b].by = "worker"

====
